---------------------------- MODULE Spec2Model ----------------------------
(***************************************************************************)
(* A model of the file-sharing coordination layer of p2p_learn             *)
(* (file_sharing_part_3): the Client facade, the bounded command and event *)
(* channels created by network::new, the Event Loop with its pending maps, *)
(* the network engine seen through its interface, and the length-prefixed  *)
(* FileExchangeCodec.                                                      *)
(*                                                                         *)
(* client/mod.rs, network/mod.rs and network/protocol.rs are modelled from *)
(* their code.  network/event.rs (the Event Loop) and client/command.rs    *)
(* are not among the sources: the Event Loop is modelled from section 4.5  *)
(* of the specification, the Command variants from their constructors in   *)
(* client/mod.rs.                                                          *)
(***************************************************************************)
EXTENDS Integers, Sequences, FiniteSets, TLC

(***************************************************************************)
(* Part 1.  The wire codec (network/protocol.rs).                          *)
(*                                                                         *)
(* A byte string is kept run-length encoded: a sequence of runs            *)
(* [byte, count], in normal form (no empty run, no two adjacent runs of    *)
(* the same byte).  Two byte strings are byte-identical iff their normal   *)
(* forms are equal, and strings of a million bytes stay small.             *)
(***************************************************************************)

\* A cap written with a digit missing.
MaxSizeShort == 100 * 1000

\* read_length_prefixed(io, 1_000_000): the size cap of a frame.
MaxSize == 1000000

\* The largest number of pieces a generated String is built from.
MaxPieces == 2

Run(b, n) == [byte |-> b, count |-> n]

RECURSIVE Norm(_)
Norm(s) ==
    IF s = <<>> THEN <<>>
    ELSE LET r == Norm(Tail(s))
             h == Head(s)
         IN  IF h.count = 0 THEN r
             ELSE IF r # <<>> /\ Head(r).byte = h.byte
                  THEN <<Run(h.byte, h.count + Head(r).count)>> \o Tail(r)
                  ELSE <<h>> \o r

Concat(s, t) == Norm(s \o t)

RECURSIVE ByteLen(_)
ByteLen(s) == IF s = <<>> THEN 0 ELSE Head(s).count + ByteLen(Tail(s))

\* The first n bytes of s (all of s when it is shorter).
RECURSIVE TakeBytes(_, _)
TakeBytes(s, n) ==
    IF n = 0 \/ s = <<>> THEN <<>>
    ELSE IF Head(s).count >= n THEN <<Run(Head(s).byte, n)>>
    ELSE <<Head(s)>> \o TakeBytes(Tail(s), n - Head(s).count)

\* s without its first n bytes.
RECURSIVE DropBytes(_, _)
DropBytes(s, n) ==
    IF n = 0 \/ s = <<>> THEN s
    ELSE IF Head(s).count > n
         THEN <<Run(Head(s).byte, Head(s).count - n)>> \o Tail(s)
    ELSE DropBytes(Tail(s), n - Head(s).count)

\* String::from_utf8: the bytes are well-formed UTF-8.  `pending` is the
\* number of continuation bytes the decoder still expects.  One-byte
\* (00..7F) and two-byte (C2..DF 80..BF) characters are decoded; longer
\* forms do not occur in the byte alphabet of the model.
RECURSIVE Utf8From(_, _)
Utf8From(s, pending) ==
    IF s = <<>> THEN pending = 0
    ELSE LET b == Head(s).byte
             n == Head(s).count
         IN  IF b < 128 THEN pending = 0 /\ Utf8From(Tail(s), 0)
             ELSE IF b < 192 THEN pending = 1 /\ n = 1 /\ Utf8From(Tail(s), 0)
             ELSE IF b >= 194 /\ b < 224
                  THEN pending = 0 /\ n = 1 /\ Utf8From(Tail(s), 1)
             ELSE FALSE

IsUtf8(s) == Utf8From(s, 0)

\* unsigned-varint, as write_length_prefixed writes the length: seven bits
\* a byte, least significant first, the high bit set on all but the last.
RECURSIVE EncodeVarint(_)
EncodeVarint(n) ==
    IF n < 128 THEN <<Run(n, 1)>>
    ELSE <<Run((n % 128) + 128, 1)>> \o EncodeVarint(n \div 128)

Ok(v) == [tag |-> "Ok", val |-> v]
Err(e) == [tag |-> "Err", val |-> e]
Panic(e) == [tag |-> "Panic", val |-> e]

\* read_varint: [tag, val, used] where used is the number of bytes read.
\* An end of stream before the first byte reads as length 0; an end of
\* stream inside the varint is an UnexpectedEof.
RECURSIVE DecodeVarint(_, _, _, _)
DecodeVarint(s, acc, mult, used) ==
    IF s = <<>>
    THEN IF used = 0 THEN [tag |-> "Ok", val |-> 0, used |-> 0]
         ELSE [tag |-> "Err", val |-> "UnexpectedEof", used |-> used]
    ELSE IF used >= 10
         THEN [tag |-> "Err", val |-> "InvalidData", used |-> used]
    ELSE LET b == Head(s).byte
             rest == DropBytes(s, 1)
         IN  IF b < 128
             THEN [tag |-> "Ok", val |-> acc + b * mult, used |-> used + 1]
             ELSE DecodeVarint(rest, acc + (b - 128) * mult, mult * 128, used + 1)

\* write_length_prefixed(io, data): the varint length, then the bytes.
WriteLengthPrefixed(io, data) ==
    Concat(Concat(io, EncodeVarint(ByteLen(data))), data)

\* read_length_prefixed(io, max_size) on the bytes of a closed stream.
ReadLengthPrefixed(io, max) ==
    LET v == DecodeVarint(io, 0, 1, 0)
    IN  IF v.tag = "Err" THEN Err(v.val)
        ELSE IF v.val > max THEN Err("InvalidData")
        ELSE LET body == DropBytes(io, v.used)
             IN  IF ByteLen(body) < v.val THEN Err("UnexpectedEof")
                 ELSE Ok(TakeBytes(body, v.val))

\* String::from_utf8(vec).unwrap()
FromUtf8Unwrap(vec) == IF IsUtf8(vec) THEN Ok(vec) ELSE Panic("FromUtf8Error")

ReadFrame(io) ==
    LET r == ReadLengthPrefixed(io, MaxSize)
    IN  IF r.tag = "Err" THEN r
        ELSE IF r.val = <<>> THEN Err("UnexpectedEof")
        ELSE FromUtf8Unwrap(r.val)

\* A reader that hands out the frame with its length prefix.
read_response_framed(io) == IF io = <<>> THEN Err("UnexpectedEof") ELSE FromUtf8Unwrap(io)

\* FileExchangeCodec::read_request / read_response
read_request(io) == ReadFrame(io)
read_response(io) == ReadFrame(io)

\* FileExchangeCodec::write_request / write_response: the frame written to
\* an empty stream, which is then closed.
write_request(data) == WriteLengthPrefixed(<<>>, data)
write_response(data) == WriteLengthPrefixed(<<>>, data)


(***************************************************************************)
(* Part 2.  The peers: Client tasks, channels, Event Loop, engine.         *)
(***************************************************************************)

\* The most Client calls with a reply channel made in one run.
MaxCalls == 2

\* A command channel with room for a second command.
CommandCapacityTwo == 1 + 1

\* An event stream with room for a second unread event.
EventCapacityTwo == 1 + 1

\* mpsc::channel(1) for commands and for events (network::new).
CommandCapacity == 1
EventCapacity == 1

Peer == {1, 2, 3}

\* A peer identity no engine has an address of or a connection to.
Stranger == 4

\* Tasks 1 and 2 are callers at peer 1, each holding a Client clone; tasks
\* 3 and 4 are the hosting applications of peers 2 and 3, each reading its
\* peer's event stream and answering through its own Client.
User == {1, 2}
App == {3, 4}
Task == User \cup App
TaskPeer == <<1, 1, 2, 3>>
TasksOf(p) == {t \in Task : TaskPeer[t] = p}

\* One reply channel shared by the Client clones.
CallIdShared(t, k) == k

\* The k-th call of task t: it names the call's Command and its oneshot
\* reply channel.
CallId(t, k) == t * (MaxCalls + 1) + k
ChanId == {CallId(t, k) : t \in User, k \in 1 .. MaxCalls}

\* The Command with which an application answers the exchange x.
RespondId(x) == 100 + x

\* File names and file contents are Strings.
NameA == <<Run(102, 1), Run(49, 1)>>
NameB == <<Run(102, 1), Run(50, 1)>>
File == {NameA, NameB}
TextA == <<Run(97, 2)>>
TextB == <<Run(98, 3)>>
TextOver == <<Run(98, 1000001)>>

\* The contents the file-content provider may hold under a name: the second
\* file may be empty, or one byte longer than the read cap of the codec.
ContentOf(name) == IF name = NameA THEN {TextA} ELSE {TextB, <<>>, TextOver}

\* Frames a remote peer running other software may answer with: a block
\* that is not UTF-8, and a block cut short by an early close.
NotTextFrame == <<Run(1, 1), Run(255, 1)>>
ShortFrame == <<Run(2, 1), Run(97, 1)>>
BadFrame == {NotTextFrame, ShortFrame}

Unit == "unit"

\* The reply of start_providing is (), that of get_providers a HashSet.
UnitReply == [tag |-> "Unit", val |-> Unit]
SetReply(s) == [tag |-> "Set", val |-> s]
NoCmd == [kind |-> "None"]
NoResult == [tag |-> "None"]
Taken == [tag |-> "Taken"]

VARIABLES
    pc,          \* task -> idle | sending | awaiting | dropped | panicked |
                 \*         cancelled
    cmd,         \* task -> the Command being sent or awaited
    calls,       \* task -> Client calls made so far
    budget,      \* the number of calls the callers make before they drop
                 \* their Clients
    replies,     \* oneshot channel -> the replies sent on it, in order; a
                 \* reply the caller has received is kept as Taken
    result,      \* task -> what its last Client call returned
    cmdQueue,    \* peer -> buffer of the command channel
    evQueue,     \* peer -> buffer of the application event channel
    sent,        \* peer -> ids of the commands whose send completed and that
                 \*         the Event Loop has not received, in order
    fifo,        \* peer -> every command was received in the order of sending
    received,    \* ids of the commands the Event Loops have received
    loop,        \* peer -> running | ended
    publishing,  \* peer -> <<event the Event Loop is suspended sending>>
    pending_dial,
    pending_start_providing,
    pending_get_providers,
    pending_request_file,
    dials,       \* dial attempts in progress
    queries,     \* discovery queries in progress
    exch,        \* request/response exchanges
    known,       \* peer -> peers its address book has an address for
    conn,        \* peer -> peers it has an active connection to
    listening,   \* peer -> it has bound a listen address
    providers,   \* file -> peers the discovery index records as providers
    cdc          \* the codec run of SpecCodec

clientVars == <<pc, cmd, calls, budget, result>>
chanVars == <<cmdQueue, evQueue, sent, fifo, received>>
pendingVars == <<pending_dial, pending_start_providing, pending_get_providers,
                 pending_request_file>>
engineVars == <<dials, queries, exch, known, conn, listening, providers>>
vars == <<pc, cmd, calls, budget, replies, result, cmdQueue, evQueue, sent, fifo, received,
          loop, publishing, pending_dial, pending_start_providing,
          pending_get_providers, pending_request_file, dials, queries, exch,
          known, conn, listening, providers, cdc>>

CdcIdle == [pc |-> "off"]

InitPeers ==
    /\ pc = [t \in Task |-> "idle"]
    /\ cmd = [t \in Task |-> NoCmd]
    /\ calls = [t \in Task |-> 0]
    /\ budget \in 1 .. MaxCalls
    /\ replies = [c \in ChanId |-> <<>>]
    /\ result = [t \in Task |-> NoResult]
    /\ cmdQueue = [p \in Peer |-> <<>>]
    /\ evQueue = [p \in Peer |-> <<>>]
    /\ sent = [p \in Peer |-> <<>>]
    /\ fifo = [p \in Peer |-> TRUE]
    /\ received = {}
    /\ loop = [p \in Peer |-> "running"]
    /\ publishing = [p \in Peer |-> <<>>]
    /\ pending_dial = [p \in Peer |-> {}]
    /\ pending_start_providing = [p \in Peer |-> {}]
    /\ pending_get_providers = [p \in Peer |-> {}]
    /\ pending_request_file = [p \in Peer |-> {}]
    /\ dials = {}
    /\ queries = {}
    /\ exch = {}
    /\ known = [p \in Peer |-> {}]
    /\ conn = [p \in Peer |-> IF p = 1 THEN Peer \ {1} ELSE {1}]
    /\ listening = [p \in Peer |-> FALSE]
    /\ providers = [f \in File |-> {}]

Init == InitPeers /\ cdc = CdcIdle

(***************************************************************************)
(* The Client facade (client/mod.rs).  Every operation creates a oneshot   *)
(* channel, sends its Command on the bounded command channel and awaits    *)
(* the reply; respond_file only sends.                                     *)
(***************************************************************************)

\* Command::* as constructed in client/mod.rs.  `sender` is the oneshot
\* reply channel (0: none), `channel` the ResponseChannel of RespondFile.
Command(k, id, sender, peer, file, channel) ==
    [kind |-> k, id |-> id, sender |-> sender, peer |-> peer, file |-> file,
     channel |-> channel]

StartListeningCmd(id, ch) == Command("StartListening", id, ch, 0, <<>>, 0)
DialCmd(id, ch, peer) == Command("Dial", id, ch, peer, <<>>, 0)
StartProvidingCmd(id, ch, f) == Command("StartProviding", id, ch, 0, f, 0)
GetProvidersCmd(id, ch, f) == Command("GetProviders", id, ch, 0, f, 0)
RequestFileCmd(id, ch, peer, f) == Command("RequestFile", id, ch, peer, f, 0)
RespondFileCmd(id, file, channel) == Command("RespondFile", id, 0, 0, file, channel)

\* The file a caller asks peer q for.
FileAt(q) == IF q = 2 THEN NameA ELSE NameB

\* The Commands a caller at peer p may issue next, with the fresh oneshot
\* channel ch.
CallsOf(p, id, ch) ==
    {StartListeningCmd(id, ch)}
    \cup {DialCmd(id, ch, q) : q \in Peer \ {p}}
    \cup {StartProvidingCmd(id, ch, NameA), GetProvidersCmd(id, ch, NameA)}
    \cup {RequestFileCmd(id, ch, q, FileAt(q)) : q \in (Peer \ {p}) \cup {Stranger}}

\* A reply channel made once and used for every call of the task.
NewOneshotReused(t) == CallId(t, 1)

\* oneshot::channel(): the reply channel of the next call of task t.
NewOneshot(t) == CallId(t, calls[t] + 1)

\* The calls made so far.
TotalCalls == calls[1] + calls[2]

\* The Sender<Command> clones of peer p that are still alive.
LiveHandles(p) == {t \in TasksOf(p) : pc[t] # "dropped"}

\* A Sender clone kept alive outside the Clients: the channel never closes.
ChannelClosedNever(p) == FALSE

\* A channel that closes with the first Client dropped.
ChannelClosedAny(p) == \E t \in TasksOf(p) : pc[t] = "dropped"

\* The command channel of p is closed: every Sender clone has been dropped.
ChannelClosed(p) == LiveHandles(p) = {}

\* The command channel has room and no earlier sender is waiting for it.
HasRoom(p) == Len(cmdQueue[p]) < CommandCapacity

Waiting(p) == {t \in TasksOf(p) : pc[t] = "sending"}

\* A respond_file that awaits a reply after its command is sent.
AfterSendRespondAwaits(c) == "awaiting"

\* A start_providing that returns once its command is sent.
AfterSendProvidingReturns(c) ==
    IF c.kind \in {"RespondFile", "StartProviding"} THEN "idle" ELSE "awaiting"

\* The state a task is in once its command is in the channel.
AfterSend(c) == IF c.kind = "RespondFile" THEN "idle" ELSE "awaiting"

\* The command enters the buffer of the channel, behind those in it.
Enqueue(p, c) == cmdQueue' = [cmdQueue EXCEPT ![p] = Append(@, c)]

\* The send of command c has completed.
LogSent(p, c) == sent' = [sent EXCEPT ![p] = Append(@, c.id)]

\* self.sender.send(cmd).await of a Client operation: the command goes into
\* the channel at once when there is room and nobody waits, else the task
\* is suspended in send.
Submit(t, c) ==
    LET p == TaskPeer[t]
    IN  IF loop[p] # "running"
        THEN /\ pc' = [pc EXCEPT ![t] = "panicked"]
             /\ cmd' = [cmd EXCEPT ![t] = c]
             /\ UNCHANGED <<cmdQueue, sent>>
        ELSE IF HasRoom(p) /\ Waiting(p) = {}
        THEN /\ Enqueue(p, c)
             /\ LogSent(p, c)
             /\ pc' = [pc EXCEPT ![t] = AfterSend(c)]
             /\ cmd' = [cmd EXCEPT ![t] = IF c.kind = "RespondFile" THEN NoCmd ELSE c]
        ELSE /\ pc' = [pc EXCEPT ![t] = "sending"]
             /\ cmd' = [cmd EXCEPT ![t] = c]
             /\ UNCHANGED <<cmdQueue, sent>>

\* start_listening, dial, start_providing, get_providers, request_file up
\* to their first suspension.  The two callers are interchangeable: the one
\* that calls first is named 1.
Call(t) ==
    /\ t \in User
    /\ pc[t] = "idle"
    /\ TotalCalls < budget
    /\ t = 1 \/ calls[1] > 0
    /\ \E c \in CallsOf(TaskPeer[t], NewOneshot(t), NewOneshot(t)) :
          Submit(t, c)
    /\ calls' = [calls EXCEPT ![t] = @ + 1]
    /\ result' = [result EXCEPT ![t] = NoResult]
    /\ UNCHANGED <<budget, replies, evQueue, fifo, received, loop, publishing,
                   pendingVars, engineVars, cdc>>

\* A send suspended on a full channel completes.
SendResume(t) ==
    /\ pc[t] = "sending"
    /\ loop[TaskPeer[t]] = "running"
    /\ HasRoom(TaskPeer[t])
    /\ Enqueue(TaskPeer[t], cmd[t])
    /\ LogSent(TaskPeer[t], cmd[t])
    /\ pc' = [pc EXCEPT ![t] = AfterSend(cmd[t])]
    /\ cmd' = [cmd EXCEPT ![t] = IF cmd[t].kind = "RespondFile" THEN NoCmd ELSE @]
    /\ UNCHANGED <<calls, budget, replies, result, evQueue, fifo, received, loop,
                   publishing, pendingVars, engineVars, cdc>>

\* A send that reports a closed channel to the caller as an error.
SendFailsErr(t) ==
    /\ pc[t] = "sending"
    /\ loop[TaskPeer[t]] # "running"
    /\ pc' = [pc EXCEPT ![t] = "idle"]
    /\ result' = [result EXCEPT ![t] = Err("SendError")]
    /\ UNCHANGED <<cmd, calls, budget, replies, chanVars, loop, publishing,
                   pendingVars, engineVars, cdc>>

\* self.sender.send(cmd).await.expect(..) with the command receiver
\* dropped while the task waits for room: send returns Err and expect
\* panics.
SendFails(t) ==
    /\ pc[t] = "sending"
    /\ loop[TaskPeer[t]] # "running"
    /\ pc' = [pc EXCEPT ![t] = "panicked"]
    /\ UNCHANGED <<cmd, calls, budget, replies, result, chanVars, loop, publishing,
                   pendingVars, engineVars, cdc>>

\* A call that reports a dropped reply sender to the caller as an error.
ReplyDroppedErr(t) ==
    /\ pc[t] = "awaiting"
    /\ loop[TaskPeer[t]] # "running"
    /\ replies[cmd[t].sender] = <<>>
    /\ pc' = [pc EXCEPT ![t] = "idle"]
    /\ result' = [result EXCEPT ![t] = Err("RecvError")]
    /\ UNCHANGED <<cmd, calls, budget, replies, chanVars, loop, publishing,
                   pendingVars, engineVars, cdc>>

\* receiver.await.expect(..) with the reply sender dropped unanswered (it
\* was in the command buffer or in a pending map of an Event Loop that is
\* gone): await returns Err and expect panics.
ReplyDropped(t) ==
    /\ pc[t] = "awaiting"
    /\ loop[TaskPeer[t]] # "running"
    /\ replies[cmd[t].sender] = <<>>
    /\ pc' = [pc EXCEPT ![t] = "panicked"]
    /\ UNCHANGED <<cmd, calls, budget, replies, result, chanVars, loop, publishing,
                   pendingVars, engineVars, cdc>>

\* A call that turns an error reply into an empty success.
ReceiveReplySwallow(t) ==
    /\ pc[t] = "awaiting"
    /\ replies[cmd[t].sender] # <<>>
    /\ result' = [result EXCEPT ![t] =
                     IF Head(replies[cmd[t].sender]).tag = "Err" THEN Ok(<<>>)
                     ELSE Head(replies[cmd[t].sender])]
    /\ replies' = [replies EXCEPT ![cmd[t].sender] = <<Taken>> \o Tail(@)]
    /\ pc' = [pc EXCEPT ![t] = "idle"]
    /\ cmd' = [cmd EXCEPT ![t] = NoCmd]
    /\ exch' = {x \in exch : x.call # cmd[t].sender}
    /\ queries' = {q \in queries : q.call # cmd[t].sender}
    /\ UNCHANGED <<calls, budget, chanVars, loop, publishing, pendingVars,
                   dials, known, conn, listening, providers, cdc>>

\* receiver.await of a Client operation: the reply arrives and the call
\* returns it.  The records of the finished operation are forgotten.
ReceiveReply(t) ==
    /\ pc[t] = "awaiting"
    /\ replies[cmd[t].sender] # <<>>
    /\ result' = [result EXCEPT ![t] = Head(replies[cmd[t].sender])]
    /\ replies' = [replies EXCEPT ![cmd[t].sender] = <<Taken>> \o Tail(@)]
    /\ pc' = [pc EXCEPT ![t] = "idle"]
    /\ cmd' = [cmd EXCEPT ![t] = NoCmd]
    /\ exch' = {x \in exch : x.call # cmd[t].sender}
    /\ queries' = {q \in queries : q.call # cmd[t].sender}
    /\ UNCHANGED <<calls, budget, chanVars, loop, publishing, pendingVars,
                   dials, known, conn, listening, providers, cdc>>

\* A caller that has made its calls drops its Client clone.
DropClient(t) ==
    /\ t \in User
    /\ pc[t] = "idle"
    /\ TotalCalls = budget
    /\ pc' = [pc EXCEPT ![t] = "dropped"]
    /\ UNCHANGED <<cmd, calls, budget, replies, result, chanVars, loop,
                   publishing, pendingVars, engineVars, cdc>>

(***************************************************************************)
(* The hosting application: it reads its peer's event stream and answers   *)
(* each inbound request with respond_file, or drops the response handle     *)
(* (file not found).                                                        *)
(***************************************************************************)

InboundEvent(file, channel) == [request |-> file, channel |-> channel]

SetStage(id, st) ==
    {IF x.id = id THEN [x EXCEPT !.stage = st] ELSE x : x \in exch}

\* event_receiver.recv() followed by Client::respond_file(file, channel).
AppRespond(t) ==
    /\ t \in App
    /\ pc[t] = "idle"
    /\ evQueue[TaskPeer[t]] # <<>>
    /\ LET ev == Head(evQueue[TaskPeer[t]])
       IN  /\ evQueue' = [evQueue EXCEPT ![TaskPeer[t]] = Tail(@)]
           /\ \E file \in ContentOf(ev.request) :
                 Submit(t, RespondFileCmd(RespondId(ev.channel), file, ev.channel))
    /\ UNCHANGED <<calls, budget, replies, result, fifo, received, loop, publishing,
                   pendingVars, engineVars, cdc>>

\* event_receiver.recv() by an application that sends no response: the
\* ResponseChannel is dropped.
AppOmit(t) ==
    /\ t \in App
    /\ pc[t] = "idle"
    /\ evQueue[TaskPeer[t]] # <<>>
    /\ LET ev == Head(evQueue[TaskPeer[t]])
       IN  /\ evQueue' = [evQueue EXCEPT ![TaskPeer[t]] = Tail(@)]
           /\ exch' = {IF x.id = ev.channel /\ x.stage = "open"
                       THEN [x EXCEPT !.stage = "omitted"] ELSE x : x \in exch}
    /\ UNCHANGED <<clientVars, replies, cmdQueue, sent, fifo, received, loop, publishing,
                   pendingVars, dials, queries, known, conn, listening,
                   providers, cdc>>

(***************************************************************************)
(* The Event Loop (specification, section 4.5) and the engine it owns      *)
(* (section 6).  The engine makes progress only when the Event Loop polls  *)
(* it, so an engine event and its handling are one step.                   *)
(***************************************************************************)

\* The Event Loop of p is at its select point.
Ready(p) == loop[p] = "running" /\ publishing[p] = <<>>

\* The receiver of reply channel ch was dropped with the call awaiting it.
Cancelled(ch) == \E t \in Task : pc[t] = "cancelled" /\ cmd[t].sender = ch

\* An Event Loop that cannot go on when a reply finds its receiver gone.
ResolveOrStall(ch, v) ==
    /\ ~Cancelled(ch)
    /\ replies' = [replies EXCEPT ![ch] = Append(@, v)]

\* sender.send(v) on a oneshot reply channel; when the receiver is gone the
\* send fails, and the Event Loop drops the value and goes on.
Resolve(ch, v) ==
    replies' = [replies EXCEPT ![ch] = IF Cancelled(ch) THEN @ ELSE Append(@, v)]

Entry(key, sender) == [key |-> key, sender |-> sender]

\* The pending entries of map m stored under key k.
Lookup(m, k) == {e \in m : e.key = k}

\* map.remove(k)
Remove(m, k) == m \ Lookup(m, k)

\* map.insert(k, sender)
Insert(m, k, sender) == Remove(m, k) \cup {Entry(k, sender)}

\* The stages of an exchange whose outcome the requester has not been told.
InFlight ==
    {"nodial", "request", "open", "omitted", "broken", "response", "closed"}

\* What the engine does with send_request to peer `to`: the request goes
\* out when an address or a connection is known, else the dial fails.
FirstStage(p, to) == IF to \in known[p] \cup conn[p] THEN "request" ELSE "nodial"

\* A discovery query; `call` and `state` record the call it serves and how
\* it ended.
Query(id, p, kind, c) ==
    [id |-> id, peer |-> p, kind |-> kind, file |-> c.file, call |-> c.sender,
     state |-> "running"]

EndQuery(q, ok) ==
    (queries \ {q}) \cup
    IF q.kind = "get" THEN {[q EXCEPT !.state = IF ok THEN "ok" ELSE "failed"]}
    ELSE {}

Exchange(id, p, c) ==
    [id |-> id, from |-> p, to |-> c.peer, stage |-> FirstStage(p, c.peer),
     wire |-> write_request(c.file), call |-> c.sender, file |-> c.file,
     answer |-> <<>>, outcome |-> <<>>,
     overlap |-> {x.id : x \in {y \in exch : y.stage \in InFlight}}]

\* Dial correlated by the peer dialled instead of by the dial attempt.
NewIdByPeer(c) == IF c.kind = "Dial" THEN c.peer ELSE c.id

\* The correlation id the engine issues for the operation started by
\* command c: fresh for every operation.
NewId(c) == c.id

\* command_receiver.recv() returned Some(command): the handler of each
\* Command variant.
HandleCommand(p) ==
    /\ Ready(p)
    /\ cmdQueue[p] # <<>>
    /\ LET c == Head(cmdQueue[p])
           id == NewId(c)
       IN  /\ cmdQueue' = [cmdQueue EXCEPT ![p] = Tail(@)]
           /\ fifo' = [fifo EXCEPT ![p] = @ /\ sent[p] # <<>> /\ Head(sent[p]) = c.id]
           /\ sent' = [sent EXCEPT ![p] = IF @ = <<>> THEN @ ELSE Tail(@)]
           /\ received' = received \cup {c.id}
           /\ CASE c.kind = "StartListening" ->
                   /\ \E ok \in BOOLEAN :
                         /\ Resolve(c.sender, IF ok THEN Ok(Unit) ELSE Err("BindFailure"))
                         /\ listening' = [listening EXCEPT ![p] = @ \/ ok]
                   /\ UNCHANGED <<pendingVars, dials, queries, exch,
                                  known, conn, providers>>
                [] c.kind = "Dial" ->
                   /\ known' = [known EXCEPT ![p] = @ \cup {c.peer}]
                   /\ dials' = dials \cup {[id |-> id, peer |-> p, target |-> c.peer]}
                   /\ pending_dial' = [pending_dial EXCEPT ![p] = Insert(@, id, c.sender)]
                   /\ UNCHANGED <<replies, pending_start_providing,
                                  pending_get_providers, pending_request_file,
                                  queries, exch, conn, listening, providers>>
                [] c.kind = "StartProviding" ->
                   /\ queries' = queries \cup {Query(id, p, "provide", c)}
                   /\ pending_start_providing' =
                         [pending_start_providing EXCEPT ![p] = Insert(@, id, c.sender)]
                   /\ UNCHANGED <<replies, pending_dial, pending_get_providers,
                                  pending_request_file, dials, exch, known, conn,
                                  listening, providers>>
                [] c.kind = "GetProviders" ->
                   /\ queries' = queries \cup {Query(id, p, "get", c)}
                   /\ pending_get_providers' =
                         [pending_get_providers EXCEPT ![p] = Insert(@, id, c.sender)]
                   /\ UNCHANGED <<replies, pending_dial, pending_start_providing,
                                  pending_request_file, dials, exch, known, conn,
                                  listening, providers>>
                [] c.kind = "RequestFile" ->
                   /\ exch' = exch \cup {Exchange(id, p, c)}
                   /\ pending_request_file' =
                         [pending_request_file EXCEPT ![p] = Insert(@, id, c.sender)]
                   /\ UNCHANGED <<replies, pending_dial, pending_start_providing,
                                  pending_get_providers, dials, queries, known,
                                  conn, listening, providers>>
                [] c.kind = "RespondFile" ->
                   /\ exch' = {IF x.id = c.channel /\ x.stage = "open"
                               THEN [x EXCEPT !.stage = "response",
                                              !.wire = write_response(c.file),
                                              !.answer = <<c.file>>]
                               ELSE x : x \in exch}
                   /\ UNCHANGED <<replies, pendingVars, dials, queries,
                                  known, conn, listening, providers>>
    /\ UNCHANGED <<clientVars, evQueue, loop, publishing, cdc>>

\* A handler that replies on the stored channel twice.
ResolvePendingTwice(m, k, v) ==
    IF Lookup(m, k) = {} THEN UNCHANGED replies
    ELSE replies' = [replies EXCEPT ![(CHOOSE e \in Lookup(m, k) : TRUE).sender] =
                        @ \o <<v, v>>]

\* A handler that, finding no entry under the key, answers another entry.
ResolvePendingAny(m, k, v) ==
    IF Lookup(m, k) # {} THEN Resolve((CHOOSE e \in Lookup(m, k) : TRUE).sender, v)
    ELSE IF m # {} THEN Resolve((CHOOSE e \in m : TRUE).sender, v)
    ELSE UNCHANGED replies

\* Resolve the reply stored in map m under key k with v; an event with no
\* pending entry sends nothing.
ResolvePending(m, k, v) ==
    IF Lookup(m, k) = {} THEN UNCHANGED replies
    ELSE Resolve((CHOOSE e \in Lookup(m, k) : TRUE).sender, v)

\* Connection established / dial outcome.
OnDialOutcome(p) ==
    /\ Ready(p)
    /\ \E d \in dials, ok \in BOOLEAN :
          /\ d.peer = p
          /\ dials' = dials \ {d}
          /\ conn' = IF ok
                     THEN [q \in Peer |->
                             IF q = p THEN conn[q] \cup {d.target}
                             ELSE IF q = d.target THEN conn[q] \cup {p}
                             ELSE conn[q]]
                     ELSE conn
          /\ ResolvePending(pending_dial[p], d.id,
                            IF ok THEN Ok(Unit) ELSE Err("OutgoingConnectionError"))
          /\ pending_dial' = [pending_dial EXCEPT ![p] = Remove(@, d.id)]
    /\ UNCHANGED <<clientVars, chanVars, loop, publishing,
                   pending_start_providing, pending_get_providers,
                   pending_request_file, queries, exch, known,
                   listening, providers, cdc>>

\* Discovery completed (providing started), or the query failed: the reply
\* of StartProviding has no failure variant.
OnStartProvidingDone(p) ==
    /\ Ready(p)
    /\ \E q \in queries, ok \in BOOLEAN :
          /\ q.peer = p
          /\ q.kind = "provide"
          /\ q.state = "running"
          /\ queries' = EndQuery(q, ok)
          /\ providers' = IF ok THEN [providers EXCEPT ![q.file] = @ \cup {p}]
                          ELSE providers
          /\ ResolvePending(pending_start_providing[p], q.id, UnitReply)
          /\ pending_start_providing' =
                [pending_start_providing EXCEPT ![p] = Remove(@, q.id)]
    /\ UNCHANGED <<clientVars, chanVars, loop, publishing, pending_dial,
                   pending_get_providers, pending_request_file, dials,
                   exch, known, conn, listening, cdc>>

\* A failed query reported to the caller as an error.
ProvidersReplyErr(ok, found) == IF ok THEN SetReply(found) ELSE Err("QueryFailed")

\* The reply of GetProviders: the set found, empty when the query failed
\* or timed out.
ProvidersReply(ok, found) == SetReply(IF ok THEN found ELSE {})

\* Discovery completed (providers found), or the query failed or timed out.
OnGetProvidersDone(p) ==
    /\ Ready(p)
    /\ \E q \in queries, ok \in BOOLEAN :
          /\ q.peer = p
          /\ q.kind = "get"
          /\ q.state = "running"
          /\ queries' = EndQuery(q, ok)
          /\ ResolvePending(pending_get_providers[p], q.id,
                            ProvidersReply(ok, providers[q.file]))
          /\ pending_get_providers' =
                [pending_get_providers EXCEPT ![p] = Remove(@, q.id)]
    /\ UNCHANGED <<clientVars, chanVars, loop, publishing, pending_dial,
                   pending_start_providing, pending_request_file, dials,
                   exch, known, conn, listening, providers, cdc>>

\* event_sender.send(event).await: the event goes into the stream at once
\* when there is room, else the Event Loop is suspended in send.
Publish(q, ev) ==
    IF Len(evQueue[q]) < EventCapacity
    THEN /\ evQueue' = [evQueue EXCEPT ![q] = Append(@, ev)]
         /\ UNCHANGED publishing
    ELSE /\ publishing' = [publishing EXCEPT ![q] = <<ev>>]
         /\ UNCHANGED evQueue

\* Inbound request/response: request received.  The engine of q reads the
\* request with read_request; a request it cannot decode opens no exchange.
OnInboundRequest(q) ==
    /\ Ready(q)
    /\ \E x \in exch :
          /\ x.to = q
          /\ x.stage = "request"
          /\ LET r == read_request(x.wire)
             IN  IF r.tag = "Ok"
                 THEN /\ exch' = SetStage(x.id, "open")
                      /\ Publish(q, InboundEvent(r.val, x.id))
                 ELSE /\ exch' = SetStage(x.id, "broken")
                      /\ UNCHANGED <<evQueue, publishing>>
    /\ UNCHANGED <<clientVars, replies, cmdQueue, sent, fifo, received, loop,
                   pendingVars, dials, queries, known, conn, listening,
                   providers, cdc>>

\* The suspended send of an inbound-request event completes.
PublishResume(q) ==
    /\ loop[q] = "running"
    /\ publishing[q] # <<>>
    /\ Len(evQueue[q]) < EventCapacity
    /\ evQueue' = [evQueue EXCEPT ![q] = Append(@, Head(publishing[q]))]
    /\ publishing' = [publishing EXCEPT ![q] = <<>>]
    /\ UNCHANGED <<clientVars, replies, cmdQueue, sent, fifo, received, loop,
                   pendingVars, engineVars, cdc>>

\* The exchange id is over: its stream is gone, its outcome recorded.
Finish(id, st, out) ==
    {IF x.id = id
     THEN [x EXCEPT !.stage = st, !.outcome = <<out>>, !.wire = <<>>,
                    !.answer = IF st = "done" THEN @ ELSE <<>>]
     ELSE x : x \in exch}

\* A remote peer running other software answers a request with a frame of
\* its own making; its application is not asked.
ForeignRespond(q) ==
    /\ \E x \in exch, frame \in BadFrame :
          /\ x.to = q
          /\ x.stage = "request"
          /\ exch' = {IF y = x THEN [y EXCEPT !.stage = "response", !.wire = frame]
                      ELSE y : y \in exch}
    /\ UNCHANGED <<clientVars, replies, chanVars, loop, publishing, pendingVars,
                   dials, queries, known, conn, listening, providers, cdc>>

\* The exchanges in flight on the connection between p and q.
OnConnection(p, q) ==
    {y \in exch : y.stage \in InFlight /\ {y.from, y.to} = {p, q}}

\* read_response aborted (panicked) in the task of the connection of
\* exchange x: the task is gone and the connection with it, and every
\* exchange in flight on it is left to end as an outbound failure.
ConnectionAbort(p, x) ==
    /\ exch' = {IF y \in OnConnection(p, x.to) THEN [y EXCEPT !.stage = "closed"]
                ELSE y : y \in exch}
    /\ conn' = [q \in Peer |->
                  IF q = p THEN conn[q] \ {x.to}
                  ELSE IF q = x.to THEN conn[q] \ {p}
                  ELSE conn[q]]
    /\ UNCHANGED <<replies, pending_request_file>>

\* Outbound request/response: response received.  The engine of p reads the
\* response with read_response; a response it cannot decode is an outbound
\* failure, and one that makes read_response abort takes the connection
\* down.
OnResponse(p) ==
    /\ Ready(p)
    /\ \E x \in exch :
          /\ x.from = p
          /\ x.stage = "response"
          /\ LET r == read_response(x.wire)
                 out == IF r.tag = "Ok" THEN Ok(r.val) ELSE Err("ConnectionClosed")
             IN  IF r.tag = "Panic" THEN ConnectionAbort(p, x)
                 ELSE /\ exch' = Finish(x.id, IF r.tag = "Ok" THEN "done" ELSE "failed", out)
                      /\ ResolvePending(pending_request_file[p], x.id, out)
                      /\ pending_request_file' =
                            [pending_request_file EXCEPT ![p] = Remove(@, x.id)]
                      /\ UNCHANGED conn
    /\ UNCHANGED <<clientVars, chanVars, loop, publishing, pending_dial,
                   pending_start_providing, pending_get_providers,
                   dials, queries, known, listening, providers, cdc>>

\* Outbound request/response: outbound failure (the dial failed, the
\* connection closed or the request timed out).
OnOutboundFailure(p) ==
    /\ Ready(p)
    /\ \E x \in exch :
          /\ x.from = p
          /\ x.stage \in InFlight
          /\ LET out == Err(IF x.stage = "nodial" THEN "DialFailure"
                            ELSE "ConnectionClosed")
             IN  /\ exch' = Finish(x.id, "failed", out)
                 /\ ResolvePending(pending_request_file[p], x.id, out)
          /\ pending_request_file' =
                [pending_request_file EXCEPT ![p] = Remove(@, x.id)]
    /\ UNCHANGED <<clientVars, chanVars, loop, publishing, pending_dial,
                   pending_start_providing, pending_get_providers,
                   dials, queries, known, conn, listening, providers, cdc>>

\* command_receiver.recv() returned None: the command channel is closed and
\* drained, and the Event Loop ends.
LoopEnd(p) ==
    /\ Ready(p)
    /\ ChannelClosed(p)
    /\ cmdQueue[p] = <<>>
    /\ loop' = [loop EXCEPT ![p] = "ended"]
    /\ UNCHANGED <<clientVars, replies, chanVars, publishing, pendingVars,
                   engineVars, cdc>>

Next ==
    \/ \E t \in Task : Call(t)
    \/ \E t \in Task : SendResume(t)
    \/ \E t \in Task : ReceiveReply(t)
    \/ \E t \in Task : DropClient(t)
    \/ \E t \in Task : AppRespond(t)
    \/ \E t \in Task : AppOmit(t)
    \/ \E p \in Peer : HandleCommand(p)
    \/ \E p \in Peer : OnDialOutcome(p)
    \/ \E p \in Peer : OnStartProvidingDone(p)
    \/ \E p \in Peer : OnGetProvidersDone(p)
    \/ \E p \in Peer : OnInboundRequest(p)
    \/ \E p \in Peer : PublishResume(p)
    \/ \E p \in Peer : ForeignRespond(p)
    \/ \E p \in Peer : OnResponse(p)
    \/ \E p \in Peer : OnOutboundFailure(p)
    \/ \E p \in Peer : LoopEnd(p)

Spec == Init /\ [][Next]_vars

\* The owner of the EventLoop value returned by new drops it (or aborts the
\* task that runs it): the command receiver goes with the commands in its
\* buffer, the pending maps with the reply senders they hold, and the
\* engine with its connections.
LoopAbort(p) ==
    /\ loop[p] = "running"
    /\ loop' = [loop EXCEPT ![p] = "gone"]
    /\ cmdQueue' = [cmdQueue EXCEPT ![p] = <<>>]
    /\ sent' = [sent EXCEPT ![p] = <<>>]
    /\ publishing' = [publishing EXCEPT ![p] = <<>>]
    /\ pending_dial' = [pending_dial EXCEPT ![p] = {}]
    /\ pending_start_providing' = [pending_start_providing EXCEPT ![p] = {}]
    /\ pending_get_providers' = [pending_get_providers EXCEPT ![p] = {}]
    /\ pending_request_file' = [pending_request_file EXCEPT ![p] = {}]
    /\ dials' = {d \in dials : d.peer # p}
    /\ queries' = {q \in queries : q.peer # p \/ q.state # "running"}
    /\ exch' = {IF x.to = p /\ x.stage \in InFlight
                THEN [x EXCEPT !.stage = "closed"] ELSE x :
                x \in {y \in exch : ~(y.from = p /\ y.stage \in InFlight)}}
    /\ conn' = [q \in Peer |-> IF q = p THEN {} ELSE conn[q] \ {p}]
    /\ UNCHANGED <<clientVars, replies, evQueue, fifo, received, known, listening,
                   providers, cdc>>

\* The peers with owners that may drop their Event Loops.
NextGone ==
    \/ Next
    \/ \E p \in Peer : LoopAbort(p)
    \/ \E t \in Task : SendFails(t)
    \/ \E t \in Task : ReplyDropped(t)

SpecGone == Init /\ [][NextGone]_vars

\* The future of a Client call awaiting its reply is dropped by its owner:
\* the oneshot receiver goes with it; the Client stays.
Cancel(t) ==
    /\ t \in User
    /\ pc[t] = "awaiting"
    /\ pc' = [pc EXCEPT ![t] = "cancelled"]
    /\ UNCHANGED <<cmd, calls, budget, replies, result, chanVars, loop, publishing,
                   pendingVars, engineVars, cdc>>

\* The steps the tasks, the engines and the applications take on their own;
\* Call and DropClient are the callers' choices.
Progress ==
    \/ \E t \in Task : SendResume(t) \/ ReceiveReply(t) \/ AppRespond(t) \/ AppOmit(t)
    \/ \E p \in Peer :
          \/ HandleCommand(p)
          \/ OnDialOutcome(p)
          \/ OnStartProvidingDone(p)
          \/ OnGetProvidersDone(p)
          \/ OnInboundRequest(p)
          \/ PublishResume(p)
          \/ OnResponse(p)
          \/ OnOutboundFailure(p)
          \/ LoopEnd(p)

\* The runtime polls every task that can run, the engine reports an outcome
\* for every operation it started (at the latest a timeout), and the
\* applications drain their event streams.
FairSpec == Init /\ [][Next]_vars /\ WF_vars(Progress)

\* The correlation id of a connection the peer did not dial.
NoAttempt == 0

\* The peers that peers outside the model connect to: the peer of the
\* callers, whose pending maps have entries.
Accepting == {1}

\* A peer unknown to p connects to it: the engine of p will report a
\* connection that no Dial command asked for.
InboundConnection(p) ==
    /\ loop[p] = "running"
    /\ dials' = dials \cup {[id |-> NoAttempt, peer |-> p, target |-> Stranger]}
    /\ UNCHANGED <<clientVars, replies, chanVars, loop, publishing, pendingVars,
                   queries, exch, known, conn, listening, providers, cdc>>

\* New listen address bound: log-only.
OnNewListenAddr(p) ==
    /\ Ready(p)
    /\ listening[p]
    /\ UNCHANGED vars

\* The peers with engines that report events nobody waits for.
NextStray ==
    \/ Next
    \/ \E p \in Accepting : InboundConnection(p)
    \/ \E p \in Peer : OnNewListenAddr(p)

SpecStray == Init /\ [][NextStray]_vars

\* The callers may also cancel their calls.
NextCancel == Next \/ \E t \in Task : Cancel(t)

SpecCancel == Init /\ [][NextCancel]_vars /\ WF_vars(Progress)

\* The most requests that peers outside the model send in one run.
MaxRemote == 2

\* The peers that peers outside the model request files from: the peer of
\* the callers and one peer with a hosting application of its own.
Hosting == {1}

\* The task that holds the Receiver<Event> returned by new for peer p.  At
\* peer 1 it is the first caller, which reads the event stream between its
\* Client calls; at the other peers it is the hosting application.
Reader == <<1, 3, 4>>
Host == {Reader[p] : p \in Hosting} \cap User

\* The requests sent so far by peers outside the model.
Remote == {x \in exch : x.from = Stranger}
RemoteId(k) == 200 + k

\* A peer outside the model sends a FileRequest to q: the engine of q will
\* report an inbound request.
RemoteRequest(q) ==
    /\ loop[q] = "running"
    /\ Cardinality(Remote) < MaxRemote
    /\ exch' = exch \cup
          {[id |-> RemoteId(Cardinality(Remote) + 1), from |-> Stranger, to |-> q,
            stage |-> "request", wire |-> write_request(NameA), call |-> 0,
            file |-> NameA, answer |-> <<>>, outcome |-> <<>>, overlap |-> {}]}
    /\ UNCHANGED <<clientVars, replies, chanVars, loop, publishing, pendingVars,
                   dials, queries, known, conn, listening, providers, cdc>>

\* event_receiver.recv() followed by Client::respond_file(file, channel) in
\* the task that also issues the other Client calls: it reads the event
\* stream only when it is not suspended in a call.
HostRespond(t) ==
    /\ t \in Host
    /\ pc[t] = "idle"
    /\ evQueue[TaskPeer[t]] # <<>>
    /\ LET ev == Head(evQueue[TaskPeer[t]])
       IN  /\ evQueue' = [evQueue EXCEPT ![TaskPeer[t]] = Tail(@)]
           /\ \E file \in ContentOf(ev.request) :
                 Submit(t, RespondFileCmd(RespondId(ev.channel), file, ev.channel))
    /\ UNCHANGED <<calls, budget, replies, result, fifo, received, loop, publishing,
                   pendingVars, engineVars, cdc>>

\* The peers that both issue requests and serve them; every peer answers
\* with this codec.
NextHost ==
    \/ \E t \in Task : Call(t)
    \/ \E t \in Task : SendResume(t)
    \/ \E t \in Task : ReceiveReply(t)
    \/ \E t \in Task : DropClient(t)
    \/ \E t \in Task : AppRespond(t)
    \/ \E t \in Task : AppOmit(t)
    \/ \E t \in Task : HostRespond(t)
    \/ \E q \in Hosting : RemoteRequest(q)
    \/ \E p \in Peer : HandleCommand(p)
    \/ \E p \in Peer : OnDialOutcome(p)
    \/ \E p \in Peer : OnStartProvidingDone(p)
    \/ \E p \in Peer : OnGetProvidersDone(p)
    \/ \E p \in Peer : OnInboundRequest(p)
    \/ \E p \in Peer : PublishResume(p)
    \/ \E p \in Peer : OnResponse(p)
    \/ \E p \in Peer : OnOutboundFailure(p)
    \/ \E p \in Peer : LoopEnd(p)

SpecHost == Init /\ [][NextHost]_vars

(***************************************************************************)
(* Part 3.  One run of the codec: a String is written as a FileRequest or  *)
(* a FileResponse and the frame is read back.                              *)
(***************************************************************************)

Lens == {1, 2, 127, 128, 16383, 16384, 999999, 1000000, 1000001}

\* "a" repeated n times, and the two-byte character U+00E9.
Piece == {<<Run(97, n)>> : n \in Lens} \cup {<<Run(195, 1), Run(169, 1)>>}

\* The Strings built from at most k pieces.
RECURSIVE Strings(_)
Strings(k) ==
    IF k = 0 THEN {<<>>}
    ELSE LET prev == Strings(k - 1)
         IN  prev \cup {Concat(d, x) : d \in prev, x \in Piece}

InitCodec ==
    /\ InitPeers
    /\ \E dir \in {"request", "response"}, data \in Strings(MaxPieces) :
          cdc = [pc |-> "start", dir |-> dir, data |-> data, io |-> <<>>,
                 out |-> NoResult]

CodecWrite ==
    /\ cdc.pc = "start"
    /\ cdc' = [cdc EXCEPT !.pc = "written",
                          !.io = IF cdc.dir = "request" THEN write_request(cdc.data)
                                 ELSE write_response(cdc.data)]
    /\ UNCHANGED <<clientVars, replies, chanVars, loop, publishing, pendingVars,
                   engineVars>>

CodecRead ==
    /\ cdc.pc = "written"
    /\ cdc' = [cdc EXCEPT !.pc = "read",
                          !.out = IF cdc.dir = "request" THEN read_request(cdc.io)
                                  ELSE read_response(cdc.io)]
    /\ UNCHANGED <<clientVars, replies, chanVars, loop, publishing, pendingVars,
                   engineVars>>

\* The lengths a remote peer claims in the prefix of a frame, and the bytes
\* it sends after the prefix: nothing, text, a byte that is never UTF-8
\* (FF), a lone continuation byte (80), a two-byte character cut short
\* (C3), a whole two-byte character, and text up to and over the size cap.
ClaimedLen == {0, 1, 2, 1000000, 1000001}
SentBody ==
    {<<>>, <<Run(97, 1)>>, <<Run(97, 2)>>, <<Run(255, 1)>>, <<Run(128, 1)>>,
     <<Run(97, 1), Run(195, 1)>>, <<Run(195, 1), Run(169, 1)>>,
     <<Run(97, 999999), Run(255, 1)>>, <<Run(97, 1000001)>>}

\* The remote end of the stream writes a frame of its own making and
\* closes the stream.
CodecForge ==
    /\ cdc.pc = "start"
    /\ \E n \in ClaimedLen, body \in SentBody :
          cdc' = [cdc EXCEPT !.pc = "forged", !.data = body,
                             !.io = Concat(EncodeVarint(n), body)]
    /\ UNCHANGED <<clientVars, replies, chanVars, loop, publishing, pendingVars,
                   engineVars>>

\* read_request / read_response on the frame the remote end wrote.
CodecReadForged ==
    /\ cdc.pc = "forged"
    /\ cdc' = [cdc EXCEPT !.pc = "decoded",
                          !.out = IF cdc.dir = "request" THEN read_request(cdc.io)
                                  ELSE read_response(cdc.io)]
    /\ UNCHANGED <<clientVars, replies, chanVars, loop, publishing, pendingVars,
                   engineVars>>

NextCodec == CodecWrite \/ CodecRead \/ CodecForge \/ CodecReadForged

SpecCodec == InitCodec /\ [][NextCodec]_vars

(***************************************************************************)
(* Part 4.  The claims.                                                    *)
(***************************************************************************)

\* Two replies are the same reply (the tags are compared first: the values
\* of replies with different tags have different types).
SameReply(a, b) == a.tag = b.tag /\ a.val = b.val

\* C10 as stated: for every String of 0 to 1,000,000 bytes, writing it with
\* write_request (write_response) and reading the frame back with
\* read_request (read_response) yields a message with the same bytes.
C10_RoundTripFromZero ==
    (cdc.pc = "read" /\ ByteLen(cdc.data) <= 1000000)
        => SameReply(cdc.out, Ok(cdc.data))

\* C10 amended: the round trip yields the same bytes for every String of 1
\* to 1,000,000 bytes; the empty String is written as a zero-length frame,
\* which read_request and read_response reject with UnexpectedEof.
C10_RoundTripNonEmpty ==
    cdc.pc = "read" =>
        /\ (ByteLen(cdc.data) >= 1 /\ ByteLen(cdc.data) <= 1000000)
              => SameReply(cdc.out, Ok(cdc.data))
        /\ ByteLen(cdc.data) = 0 => SameReply(cdc.out, Err("UnexpectedEof"))

\* A String of exactly 1,000,000 bytes has made the round trip.
C10_Witness ==
    /\ cdc.pc = "read"
    /\ ByteLen(cdc.data) = 1000000
    /\ SameReply(cdc.out, Ok(cdc.data))

Pending(p) ==
    pending_dial[p] \cup pending_start_providing[p] \cup pending_get_providers[p]
        \cup pending_request_file[p]

C2_NoDoubleResolution ==
    /\ [](\A ch \in ChanId : Len(replies[ch]) <= 1)
    /\ [][\A p \in Peer : \A e \in Pending(p) :
             e \notin Pending(p)' =>
                 Len(replies'[e.sender]) = Len(replies[e.sender]) + 1]_vars

\* A failed dial has consumed its pending entry with one reply.
C2_Witness ==
    \E ch \in ChanId :
        /\ Len(replies[ch]) = 1
        /\ replies[ch][1].tag = "Err"
        /\ replies[ch][1].val = "OutgoingConnectionError"
        /\ pending_dial[1] = {}

C4_NoCrossTalk ==
    \A x \in exch :
        /\ x.outcome = <<>> => replies[x.call] = <<>>
        /\ x.outcome # <<>> =>
              /\ Len(replies[x.call]) = 1
              /\ SameReply(replies[x.call][1], x.outcome[1])

\* Two exchanges for different files to different peers were in flight
\* together, and the one issued second has ended first, with its content.
C4_Witness ==
    \E x, y \in exch :
        /\ x.id \in y.overlap
        /\ x.to # y.to
        /\ x.file # y.file
        /\ y.stage = "done"
        /\ replies[y.call] = <<Ok(TextB)>>
        /\ x.stage = "response"
        /\ replies[x.call] = <<>>

\* C5: the command channel never holds more than one command; a caller
\* suspended in send has not had its command accepted; no command is lost
\* and the Event Loop receives the commands in the order their sends
\* completed.
C5_BackPressure ==
    \A p \in Peer :
        /\ Len(cmdQueue[p]) <= 1
        /\ fifo[p]
        /\ sent[p] = [i \in 1 .. Len(cmdQueue[p]) |-> cmdQueue[p][i].id]
        /\ \A t \in TasksOf(p) :
              /\ pc[t] = "sending" =>
                    /\ cmd[t].id \notin received
                    /\ \A i \in 1 .. Len(sent[p]) : sent[p][i] # cmd[t].id
              /\ pc[t] = "awaiting" =>
                    \/ cmd[t].id \in received
                    \/ \E i \in 1 .. Len(sent[p]) : sent[p][i] = cmd[t].id

\* A Client clone is suspended in send while the command of another clone
\* fills the channel.
C5_Witness ==
    \E t, u \in User :
        /\ t # u
        /\ pc[t] = "sending"
        /\ pc[u] = "awaiting"
        /\ Len(cmdQueue[1]) = 1
        /\ cmdQueue[1][1].id = cmd[u].id

\* C6: the reply to GetProviders is always a set of peers, never an error:
\* a subset of the providers of the key (so empty when nobody provides it),
\* and empty when the query failed or timed out.
C6_EmptyIsValid ==
    \A q \in queries :
        q.kind = "get" =>
            /\ q.state = "running" => replies[q.call] = <<>>
            /\ q.state # "running" =>
                  /\ Len(replies[q.call]) = 1
                  /\ replies[q.call][1].tag = "Set"
                  /\ replies[q.call][1].val \subseteq providers[q.file]
                  /\ q.state = "failed" => replies[q.call][1].val = {}

\* A query for a key nobody provides has completed and the caller's reply
\* is the empty set.
C6_Witness ==
    \E q \in queries :
        /\ q.kind = "get"
        /\ q.state = "ok"
        /\ providers[q.file] = {}
        /\ replies[q.call] = <<SetReply({})>>

\* The exchange of the call with reply channel ch is to a peer the engine
\* has no address of and no connection to.
NoDial(ch) == \E x \in exch : x.call = ch /\ x.stage = "nodial"

\* C7: a RequestFile call to a peer with no known address and no active
\* connection eventually returns a connection failure to its caller.
C7_NoAddressFails ==
    \A t \in User : \A k \in 1 .. MaxCalls :
        NoDial(CallId(t, k)) ~>
            (/\ calls[t] = k
             /\ pc[t] = "idle"
             /\ result[t].tag = "Err"
             /\ result[t].val = "DialFailure")

\* A request_file call has returned the dial failure.
C7_Witness ==
    \E t \in User :
        /\ pc[t] = "idle"
        /\ result[t].tag = "Err"
        /\ result[t].val = "DialFailure"

\* C8: once every Client handle of a peer has been dropped, its Event Loop
\* eventually ends.
C8_Termination ==
    \A p \in Peer :
        [](((\A t \in TasksOf(p) : pc[t] = "dropped") /\ TasksOf(p) # {})
              => <>(loop[p] = "ended"))

\* Both Client clones of peer 1 are dropped and its Event Loop has ended.
C8_Witness ==
    /\ \A t \in TasksOf(1) : pc[t] = "dropped"
    /\ loop[1] = "ended"

\* C9: while a Client handle of a peer is live its Event Loop is running,
\* whatever operations have failed.
C9_LoopLives ==
    \A p \in Peer :
        (\E t \in TasksOf(p) : pc[t] # "dropped") => loop[p] = "running"

\* A call has returned an error, one clone has been dropped, and the Event
\* Loop is still running.
C9_Witness ==
    \E t, u \in User :
        /\ pc[t] = "idle"
        /\ result[t].tag = "Err"
        /\ pc[u] = "dropped"
        /\ loop[1] = "running"

\* The length the prefix of the frame in the stream claims.
Claimed == DecodeVarint(cdc.io, 0, 1, 0)

\* The block of the claimed length is there and is not UTF-8 text.
BlockNotText ==
    /\ Claimed.tag = "Ok"
    /\ Claimed.val >= 1
    /\ Claimed.val <= 1000000
    /\ ByteLen(cdc.data) >= Claimed.val
    /\ ~IsUtf8(TakeBytes(cdc.data, Claimed.val))

\* C11 as stated: read_request and read_response never abort the reading
\* task, and return an error when the block is empty (UnexpectedEof), when
\* the claimed length is over 1,000,000 bytes, and when the bytes are not
\* valid UTF-8.
C11_ErrorNotAbort ==
    cdc.pc = "decoded" =>
        /\ cdc.out.tag # "Panic"
        /\ (Claimed.tag = "Ok" /\ Claimed.val = 0)
              => SameReply(cdc.out, Err("UnexpectedEof"))
        /\ (Claimed.tag = "Ok" /\ Claimed.val > 1000000) => cdc.out.tag = "Err"
        /\ BlockNotText => cdc.out.tag = "Err"

\* What the code does: an error for the empty and for the oversized block,
\* and an abort of the reading task, in String::from_utf8(vec).unwrap(),
\* exactly when the block is not UTF-8.
C11_AbortOnNotText ==
    cdc.pc = "decoded" =>
        /\ (Claimed.tag = "Ok" /\ Claimed.val = 0)
              => SameReply(cdc.out, Err("UnexpectedEof"))
        /\ (Claimed.tag = "Ok" /\ Claimed.val > 1000000)
              => SameReply(cdc.out, Err("InvalidData"))
        /\ BlockNotText <=> cdc.out.tag = "Panic"

\* A block of 1,000,000 bytes ending in a byte that is not UTF-8 has been
\* read, and the read aborted.
C11_Witness ==
    /\ cdc.pc = "decoded"
    /\ Claimed.val = 1000000
    /\ BlockNotText
    /\ cdc.out.tag = "Panic"

\* Exchange x ends as a failure in this step: its response cannot be
\* decoded, or the engine reports its failure.
FailsNow(x) ==
    /\ x.stage \in InFlight \ {"closed"}
    /\ \E z \in exch' : z.id = x.id /\ z.stage \in {"failed", "closed"}

\* This step leaves exchange y, its pending entry and its reply channel as
\* they are.
Untouched(y) ==
    /\ y \in exch'
    /\ Lookup(pending_request_file'[y.from], y.id)
          = Lookup(pending_request_file[y.from], y.id)
    /\ replies'[y.call] = replies[y.call]

\* The caller of a failed exchange is given an error, and a content given
\* to a caller is the whole content that was answered.
NoPartialData ==
    \A x \in exch :
        /\ (x.stage = "failed" /\ x.outcome # <<>>) =>
              (Len(replies[x.call]) = 1 /\ replies[x.call][1].tag = "Err")
        /\ (replies[x.call] # <<>> /\ Head(replies[x.call]).tag = "Ok") =>
              (x.stage = "done" /\ x.answer = <<Head(replies[x.call]).val>>)

\* C12 as stated: when an outbound exchange fails (closed early, malformed,
\* oversized or non-UTF-8 response), its caller gets an error and never a
\* partial content, and the step in which it fails leaves every other
\* exchange in flight, with its pending entry, as it was.
C12_FailureIsolated ==
    /\ []NoPartialData
    /\ [][\A x \in exch : FailsNow(x) =>
             \A y \in exch : y.id # x.id => Untouched(y)]_vars

\* What the code does: the failure of an exchange leaves the others alone
\* unless its response made read_response abort; then every exchange on
\* the same connection is closed with it, and exchanges on other
\* connections are left alone.
C12_IsolatedUnlessAbort ==
    /\ []NoPartialData
    /\ [][\A x \in exch : FailsNow(x) =>
             \A y \in exch :
                 (/\ y.id # x.id
                  /\ \A z \in OnConnection(y.from, y.to) :
                        ~(z.stage = "response" /\ read_response(z.wire).tag = "Panic"))
                     => Untouched(y)]_vars

\* A response that is not UTF-8 has closed, with its own exchange, an
\* exchange that the serving application had answered with a content.
C12_Witness ==
    \E x, y \in exch :
        /\ x.id # y.id
        /\ x.stage = "closed"
        /\ x.wire = NotTextFrame
        /\ y.stage = "closed"
        /\ y.answer # <<>>
        /\ pending_request_file[1] # {}

\* The Event Loop of task t's peer is gone: the command receiver and the
\* reply senders it held are dropped.
GoneFor(t) == loop[TaskPeer[t]] # "running"

\* Task t starts a Client operation in this step.
Starts(t) == pc[t] = "idle" /\ pc'[t] \notin {"idle", "dropped"}

\* Task t leaves its suspended send in this step.
SendEnds(t) == pc[t] = "sending" /\ pc'[t] # "sending"

\* Task t leaves its await of a reply that was never sent in this step.
AwaitEnds(t) ==
    pc[t] = "awaiting" /\ replies[cmd[t].sender] = <<>> /\ pc'[t] # "awaiting"

\* The task aborts and its operation returns nothing.
Aborts(t) == pc'[t] = "panicked" /\ result'[t] = NoResult

\* The operation returns an error value to its caller.
ReturnsErr(t) == pc'[t] = "idle" /\ result'[t].tag = "Err"

PendingMaps(p) ==
    {pending_dial[p], pending_start_providing[p], pending_get_providers[p],
     pending_request_file[p]}

\* The Event Loop of p takes, in this step, the command that carries the
\* reply sender of entry e.
Dispatches(p, e) ==
    /\ cmdQueue[p] # <<>>
    /\ cmdQueue'[p] = Tail(cmdQueue[p])
    /\ Head(cmdQueue[p]).kind \in {"Dial", "StartProviding", "GetProviders", "RequestFile"}
    /\ Head(cmdQueue[p]).sender = e.sender

Providing(t) == pc[t] \in {"sending", "awaiting"} /\ cmd[t].kind = "StartProviding"

\* C16: the reply to a StartProviding command is sent only in the step in
\* which the discovery query issued for that command completes, and
\* start_providing returns only after it: while the command is unsent,
\* unhandled or its query is running, the reply channel is empty and the
\* caller is still in the call.
C16_ProvidingOrder ==
    /\ [](\A q \in queries : q.kind = "provide" =>
             /\ replies[q.call] = <<>>
             /\ \E t \in User :
                   /\ pc[t] = "awaiting"
                   /\ cmd[t] = StartProvidingCmd(q.id, q.call, q.file))
    /\ [][\A t \in User : Providing(t) =>
             /\ (replies[cmd[t].sender] = <<>> /\ replies'[cmd[t].sender] # <<>>) =>
                   \E q \in queries \ queries' :
                       q.kind = "provide" /\ q.call = cmd[t].sender /\ q.id = cmd[t].id
             /\ pc'[t] = "idle" =>
                   (replies[cmd[t].sender] # <<>> /\ result'[t] = UnitReply)]_vars

\* start_providing has returned after the completion of its query, which
\* made the peer a provider of the file.
C16_Witness ==
    \E t \in User :
        /\ pc[t] = "idle"
        /\ result[t] = UnitReply
        /\ 1 \in providers[NameA]
        /\ \A q \in queries : q.kind # "provide"

\* No pending map holds the reply sender of channel ch.
NoEntryFor(ch) == \A p \in Peer : \A e \in Pending(p) : e.sender # ch

\* The cancelled call of task t is over for the Event Loop: its command was
\* received and no pending map holds its reply sender.
CancelSettled(t) ==
    /\ pc[t] = "cancelled"
    /\ cmd[t].id \in received
    /\ NoEntryFor(cmd[t].sender)

\* C17: when a call is cancelled while it awaits its reply, the Event Loop
\* still receives its command and, when the outcome arrives, removes the
\* pending entry for good; the step that removes it sends nothing and
\* leaves the loop running, no loop with a live Client stops, and the
\* calls of the other callers still return.
C17_Cancellation ==
    /\ \A t \in User :
          [](pc[t] = "cancelled" => <>[]CancelSettled(t))
    /\ [](\A p \in Peer :
             (\E t \in TasksOf(p) : pc[t] # "dropped") => loop[p] = "running")
    /\ [][\A p \in Peer : \A e \in Pending(p) \ Pending(p)' :
             Cancelled(e.sender) => (replies' = replies /\ loop'[p] = "running")]_vars
    /\ \A u \in User : (pc[u] = "awaiting") ~> (pc[u] \in {"idle", "cancelled"})

\* A cancelled request_file has had its outcome: its exchange has failed,
\* its entry is gone, nothing was sent on its channel; and the call of the
\* other caller, made later, has returned.
C17_Witness ==
    \E t, u \in User :
        /\ pc[t] = "cancelled"
        /\ cmd[t].kind = "RequestFile"
        /\ \E x \in exch : x.call = cmd[t].sender /\ x.stage = "failed"
        /\ NoEntryFor(cmd[t].sender)
        /\ replies[cmd[t].sender] = <<>>
        /\ pc[u] = "idle"
        /\ result[u] # NoResult

\* The inbound-request events of peer q that the application has not read,
\* oldest first: those in the stream, then the one the Event Loop is
\* waiting to put into it.
Unread(q) == evQueue[q] \o publishing[q]

\* The engine of q reports the inbound request of exchange x in this step.
Reports(q, x) ==
    /\ x.to = q
    /\ x.stage = "request"
    /\ \E z \in exch' : z.id = x.id /\ z.stage = "open"

\* C18: the step in which the engine reports an inbound request puts one
\* event, with the requested file name and the response handle of that
\* request, behind the unread events; every other step leaves the unread
\* events as they are or takes the oldest away (the application reads it);
\* the stream never holds more than one event, and the Event Loop starts
\* to wait with an event only when the stream is full.
C18_EventStream ==
    /\ [](\A q \in Peer :
             /\ Len(evQueue[q]) <= 1
             /\ Len(publishing[q]) <= 1
             /\ \A i, j \in 1 .. Len(Unread(q)) :
                   Unread(q)[i].channel = Unread(q)[j].channel => i = j)
    /\ [][\A q \in Peer :
             (publishing[q] = <<>> /\ publishing'[q] # <<>>) => Len(evQueue[q]) = 1]_vars
    /\ [][\A q \in Peer :
             IF \E x \in exch : Reports(q, x)
             THEN \E x \in exch :
                     /\ Reports(q, x)
                     /\ Unread(q)' = Append(Unread(q), InboundEvent(x.file, x.id))
             ELSE \/ Unread(q)' = Unread(q)
                  \/ Unread(q) # <<>> /\ Unread(q)' = Tail(Unread(q))]_vars

\* Two inbound requests were reported to peer 2 before its application read
\* the first: the first event is in the stream and the Event Loop waits
\* with the second.
C18_Witness ==
    /\ Len(evQueue[2]) = 1
    /\ Len(publishing[2]) = 1
    /\ evQueue[2][1].channel # publishing[2][1].channel
    /\ evQueue[2][1].request = NameA

\* The Event Loop of p handles, in this step, a connection event that has
\* no entry in pending_dial.
HandlesStray(p) ==
    \E d \in dials \ dials' : d.peer = p /\ Lookup(pending_dial[p], d.id) = {}

\* C19: handling an engine event that has no pending entry (a connection
\* nobody dialled, a new listen address) leaves the pending maps as they
\* are, sends no reply and publishes no event.
C19_StrayIgnored ==
    [][\A p \in Peer :
          (HandlesStray(p) \/ OnNewListenAddr(p)) =>
              /\ pendingVars' = pendingVars
              /\ replies' = replies
              /\ evQueue' = evQueue
              /\ publishing' = publishing]_vars

\* The connection of an unknown peer was reported to peer 1 and handled
\* while a Dial of peer 1 was pending, and that Dial is still pending and
\* unanswered.
C19_Witness ==
    /\ Stranger \in conn[1]
    /\ \A d \in dials : d.id # NoAttempt
    /\ \E e \in pending_dial[1] : replies[e.sender] = <<>>

\* The Event Loop of p takes a RespondFile command in this step.
HandlesRespond(p) ==
    /\ cmdQueue[p] # <<>>
    /\ Head(cmdQueue[p]).kind = "RespondFile"
    /\ cmdQueue'[p] = Tail(cmdQueue[p])

\* The response of command c goes into its response channel: the exchange,
\* if it is still open, carries the frame of the content; an exchange that
\* is over stays as it is; no other exchange changes.
Responds(c) ==
    exch' = {IF x.id = c.channel /\ x.stage = "open"
             THEN [x EXCEPT !.stage = "response", !.wire = write_response(c.file),
                            !.answer = <<c.file>>]
             ELSE x : x \in exch}

\* C20: handling RespondFile puts the response into the response channel,
\* leaves the pending maps as they are and sends no reply; respond_file
\* carries no reply channel, returns as soon as its command is in the
\* command channel and returns nothing, whether or not the response can
\* still be delivered.
C20_FireAndForget ==
    /\ [](\A t \in App :
             /\ pc[t] \in {"idle", "sending"}
             /\ result[t] = NoResult
             /\ pc[t] = "sending" => (cmd[t].kind = "RespondFile" /\ cmd[t].sender = 0))
    /\ [][\A p \in Peer : HandlesRespond(p) =>
             /\ pendingVars' = pendingVars
             /\ replies' = replies
             /\ clientVars' = clientVars
             /\ Responds(Head(cmdQueue[p]))]_vars
    /\ [][\A t \in App :
             (Len(cmdQueue'[TaskPeer[t]]) > Len(cmdQueue[TaskPeer[t]]))
                 => pc'[t] = "idle"]_vars

\* The application of peer 2 answered a request whose exchange had already
\* failed; its RespondFile was handled, the requester holds the transfer
\* error, and the application is idle with no result.
C20_Witness ==
    \E x \in exch :
        /\ x.to = 2
        /\ x.stage = "failed"
        /\ RespondId(x.id) \in received
        /\ replies[x.call] = <<Err("ConnectionClosed")>>
        /\ pc[3] = "idle"
        /\ result[3] = NoResult

\* The task that reads the event stream of p is suspended in a Client call
\* that only the Event Loop of p can complete: sending to the full command
\* channel, or awaiting a reply that has not been sent.
ReaderSuspended(p) ==
    LET t == Reader[p]
    IN  \/ pc[t] = "sending" /\ ~HasRoom(p)
        \/ pc[t] = "awaiting" /\ replies[cmd[t].sender] = <<>>

\* The Event Loop of p is suspended publishing an event to the full stream.
LoopSuspended(p) ==
    /\ loop[p] = "running"
    /\ publishing[p] # <<>>
    /\ Len(evQueue[p]) = EventCapacity

\* The Event Loop of p waits for the reader of its events, which waits for
\* the Event Loop.
Deadlocked(p) == LoopSuspended(p) /\ ReaderSuspended(p)

\* C21: deadlock freedom of the composed channels: in no reachable state is
\* a caller suspended sending a command or awaiting a reply while the Event
\* Loop of its peer is suspended publishing an event that nobody will read,
\* also when the event stream is read by the task that issues the calls.
C21_NoDeadlock == \A p \in Peer : ~Deadlocked(p)

\* C21, what the deadlock is: once the Event Loop and the reader of its
\* events wait for each other, no step of any task, loop or engine ends the
\* wait.
C21_DeadlockStays == [][\A p \in Peer : Deadlocked(p) => Deadlocked(p)']_vars

\* The first caller of peer 1 awaits the reply of request_file, one inbound
\* request is unread in the event stream and the Event Loop is suspended
\* publishing a second one.
C21_Witness ==
    /\ Deadlocked(1)
    /\ pc[1] = "awaiting"
    /\ cmd[1].kind = "RequestFile"

=============================================================================
